---- MODULE Spec2Model ----
(***************************************************************************)
(* CodeWiki: the recursive module clustering engine (cluster_modules.py)   *)
(* and the dependency graph builder (dependency_analyzer/ast_parser.py).   *)
(*                                                                         *)
(* One top-level call of cluster_modules is modelled as a state machine    *)
(* over an explicit call stack.  Python objects that the recursion shares  *)
(* by reference (the module tree, the path list) are single variables; an  *)
(* invocation refers to "its" groups by their position in the tree.        *)
(* Specification Spec runs the clustering engine.                          *)
(*                                                                         *)
(* One run of DependencyParser.parse_repository is modelled with one step  *)
(* per raw function record and one per raw relationship record.            *)
(* Specification GraphSpec runs the graph builder.                         *)
(*                                                                         *)
(* AnalysisSpec runs DependencyGraphBuilder.build_dependency_graph from    *)
(* the component map on (leaf nodes, candidate filter) and the sorter of   *)
(* topo_sort, which is modelled from the specification document.           *)
(* AgentSpec runs NativeAgent.run with its LLM requests and tool calls;    *)
(* AgentFairSpec adds that the loop keeps running.                         *)
(* OrchestratorSpec runs AgentOrchestrator.process_module over the files   *)
(* of one working directory.                                               *)
(***************************************************************************)
EXTENDS Integers, Sequences, FiniteSets, TLC

VARIABLES
    status,        \* "idle" | "running" | "returned" | "raised" (the top-level call)
    stack,         \* the active invocations of cluster_modules, outermost first
    tree,          \* current_module_tree: the dict object the recursion shares
    path,          \* current_module_path: the list object the recursion shares
    usingDefault,  \* the call did not pass current_module_path (shared default list)
    result,        \* the value returned by the top-level call
    exc,           \* the exception that left the top-level call
    ended          \* the invocations that ended in the last step (history)

VARIABLES
    phase,                 \* "functions" | "relationships" | "done" | "raised"
    self_components,       \* self.components: the nodes in insertion order
    self_modules,          \* self.modules
    component_id_mapping,  \* the id-resolution index
    handled,               \* records consumed by the loop that is running
    skipped,               \* function records left out for their id (history)
    last,                  \* the last record handled and the state before it (history)
    returned,              \* what parse_repository hands to its caller
    raisedAt               \* the source line whose exception left the builder

VARIABLES
    an_pc,            \* "idle" | "parsed" | "filter" | "returned" | "sorting" | "sorted"
    an_components,    \* components: the map parse_repository returned
    an_graph,         \* graph: the adjacency structure built from it
    an_leaf_nodes,    \* leaf_nodes: what get_leaf_nodes returned
    an_pending,       \* the leaf nodes the filter loop has not visited yet
    keep_leaf_nodes,  \* keep_leaf_nodes
    an_returned,      \* what build_dependency_graph returned
    acyclic_graph,    \* the condensed graph the sorter works on
    emitted,          \* the nodes of the condensed graph already put out
    topo_order        \* the order topological_sort has produced so far

VARIABLES
    ag_pc,        \* "idle" | "loop" | "primary" | "fallback" | "tools" | "returned" | "raised"
    agent,        \* the NativeAgent object: model, fallback_model, system_prompt, max_iterations
    configured,   \* the arguments the agent was constructed with (history)
    messages,     \* messages: the conversation of the run
    iteration,    \* iteration
    pending,      \* the tool calls of the last assistant message not yet executed
    requests,     \* every chat completion request made, in order (history)
    ag_result,    \* the string run returned
    ag_error      \* the request whose exception left run: "primary" | "fallback" | "tool"

VARIABLES
    or_pc,        \* "idle" | "loaded" | "agent" | "returned" | "raised"
    tree_file,    \* the persisted module tree file in working_dir
    docs,         \* the module names whose documentation file exists in working_dir
    module_tree,  \* module_tree, the object deps.module_tree also refers to
    or_module_name,  \* module_name: the module process_module was called for
    processed,    \* calls of process_module so far
    file_before,  \* the tree file when the current call started (history)
    writes,       \* save_json calls of the current call (history)
    agent_ended,  \* how the agent ended in the current call: "" | "ok" | "raise" (history)
    or_return     \* the value the current call returned

clusterVars == <<status, stack, tree, path, usingDefault, result, exc, ended>>

graphVars == <<phase, self_components, self_modules, component_id_mapping,
               handled, skipped, last, returned, raisedAt>>

analysisVars == <<an_pc, an_components, an_graph, an_leaf_nodes, an_pending,
                  keep_leaf_nodes, an_returned, acyclic_graph, emitted,
                  topo_order>>

vars == <<status, stack, tree, path, usingDefault, result, exc, ended,
          phase, self_components, self_modules, component_id_mapping,
          handled, skipped, last, returned, raisedAt,
          an_pc, an_components, an_graph, an_leaf_nodes, an_pending,
          keep_leaf_nodes, an_returned, acyclic_graph, emitted, topo_order,
          ag_pc, agent, configured, messages, iteration, pending, requests,
          ag_result, ag_error,
          or_pc, tree_file, docs, module_tree, or_module_name, processed,
          file_before, writes, agent_ended, or_return>>

agentVars == <<ag_pc, agent, configured, messages, iteration, pending,
               requests, ag_result, ag_error>>

orchestratorVars == <<or_pc, tree_file, docs, module_tree, or_module_name,
                      processed, file_before, writes, agent_ended, or_return>>

\* The variables each part of the program leaves alone.
outsideCluster == <<graphVars, analysisVars, agentVars, orchestratorVars>>
outsideGraph == <<clusterVars, analysisVars, agentVars, orchestratorVars>>
outsideAnalysis == <<clusterVars, graphVars, agentVars, orchestratorVars>>
outsideAgent == <<clusterVars, graphVars, analysisVars, orchestratorVars>>
outsideOrchestrator == <<clusterVars, graphVars, analysisVars, agentVars>>

-----------------------------------------------------------------------------
(* Bounds and program constants *)

MAX_TOKEN_PER_MODULE == 36369

\* Depth of the interpreter's call stack available to cluster_modules.
RecursionLimit == 3

-----------------------------------------------------------------------------
(* The component map (the `components` argument) *)

CompIds == {"a.A", "a.B", "b.C"}

UnknownId == "x.U"

\* Node.relative_path and Node.source_code; the source text is represented by
\* its token count.  "a.A" alone fills the budget exactly, "a.A" with "a.B"
\* exceeds it, "b.C" alone exceeds it.
components ==
    [id \in CompIds |->
        CASE id = "a.A" -> [relative_path |-> "a.py", source_code |-> 36367]
          [] id = "a.B" -> [relative_path |-> "a.py", source_code |-> 1]
          [] OTHER      -> [relative_path |-> "b.py", source_code |-> 36368]]

\* sorted(leaf_nodes_by_file.items()): the files in lexicographic order.
SortedFiles == <<"a.py", "b.py">>

-----------------------------------------------------------------------------
(* format_potential_core_components *)

\* lines 16-23: the ids that are keys of the component map, order kept.
ValidLeafNodes(leaf_nodes) ==
    SelectSeq(leaf_nodes, LAMBDA n : n \in DOMAIN components)

\* lines 26-28: leaf_nodes_by_file[file], in order of appearance.
LeafNodesByFile(valid, file) ==
    SelectSeq(valid, LAMBDA n : components[n].relative_path = file)

RECURSIVE IdLines(_, _, _)
\* lines 35-38: one id line per leaf node, followed by its source when withCode.
IdLines(ids, k, withCode) ==
    IF k > Len(ids) THEN <<>>
    ELSE <<[kind |-> "id", text |-> ids[k]]>>
         \o (IF withCode THEN <<[kind |-> "code", text |-> ids[k]]>> ELSE <<>>)
         \o IdLines(ids, k + 1, withCode)

RECURSIVE FileBlocks(_, _, _)
\* lines 32-38: one block per file that has leaf nodes, files in sorted order.
FileBlocks(valid, f, withCode) ==
    IF f > Len(SortedFiles) THEN <<>>
    ELSE LET ids == LeafNodesByFile(valid, SortedFiles[f])
         IN (IF ids = <<>> THEN <<>>
             ELSE <<[kind |-> "file", text |-> SortedFiles[f]]>>
                  \o IdLines(ids, 1, withCode))
            \o FileBlocks(valid, f + 1, withCode)

\* The pair returned at line 40: (listing, listing with code).
format_potential_core_components(leaf_nodes) ==
    [light |-> FileBlocks(ValidLeafNodes(leaf_nodes), 1, FALSE),
     full  |-> FileBlocks(ValidLeafNodes(leaf_nodes), 1, TRUE)]

\* Tokens of one line of a listing: a header or id line is one token, a source
\* line has the tokens of the component's source.
LineTokens(line) ==
    IF line.kind = "code" THEN components[line.text].source_code ELSE 1

RECURSIVE count_tokens(_)
count_tokens(listing) ==
    IF listing = <<>> THEN 0
    ELSE LineTokens(Head(listing)) + count_tokens(Tail(listing))

WithinBudgetStrict(listing) == count_tokens(listing) < MAX_TOKEN_PER_MODULE

\* line 55: the budget test.
WithinBudget(listing) == count_tokens(listing) <= MAX_TOKEN_PER_MODULE

-----------------------------------------------------------------------------
(* Module trees *)

\* A dict from module name to entry.  An entry is the value eval() produced
\* for a group: obj says whether it is a dict, has lists the keys it holds.
EmptyTree == [n \in {} |-> 0]

Entry(obj, has, description, comps, children) ==
    [obj |-> obj, has |-> has, description |-> description,
     components |-> comps, children |-> children]

\* dict with key k set to e.
DictSet(d, k, e) == [n \in (DOMAIN d) \cup {k} |-> IF n = k THEN e ELSE d[n]]

RECURSIVE Navigate(_, _)
\* lines 91-93: value = tree; for key in path: value = value[key]["children"].
Navigate(t, P) ==
    IF P = <<>> THEN [ok |-> TRUE, value |-> t]
    ELSE IF /\ P[1] \in DOMAIN t
            /\ t[P[1]].obj
            /\ "children" \in t[P[1]].has
         THEN Navigate(t[P[1]].children, Tail(P))
         ELSE [ok |-> FALSE, value |-> EmptyTree]

RECURSIVE ReplaceAt(_, _, _)
\* The tree with the dict reached by P replaced by d (an in-place mutation of
\* that dict object, seen through the tree).
ReplaceAt(t, P, d) ==
    IF P = <<>> THEN d
    ELSE [t EXCEPT ![P[1]].children = ReplaceAt(@, Tail(P), d)]

\* lines 112-113: module_info["children"] = c, for the group g held by the
\* dict at P.
SetChildren(t, P, g, c) ==
    LET d == Navigate(t, P).value
    IN ReplaceAt(t, P, [d EXCEPT ![g].children = c,
                                 ![g].has = @ \cup {"children"}])

-----------------------------------------------------------------------------
(* Inputs: candidate lists, pre-existing trees, oracle responses *)

\* leaf_nodes of the top-level call: under the budget, exactly at the budget,
\* over it, over it with an id that is no key of the component map.
CandidateLists ==
    { <<"a.B">>, <<"a.A">>, <<"a.A", "a.B">>, <<"b.C", UnknownId>> }

\* A tree persisted by an earlier run (description, components, children).
PreTree ==
    [n \in {"core", "util"} |->
        IF n = "core"
        THEN Entry(TRUE, {"components", "children"}, "old",
                   <<"a.A", "a.B">>, EmptyTree)
        ELSE Entry(TRUE, {"components", "children"}, "old", <<"b.C">>,
                   [m \in {"sub"} |->
                       Entry(TRUE, {"components", "children"}, "old",
                             <<"b.C">>, EmptyTree)])]

\* (current_module_tree, current_module_path) of the top-level call; dflt says
\* that the path argument is omitted (the shared default list is used).
TopCalls ==
    { [tree |-> EmptyTree, dflt |-> TRUE,  path |-> <<>>],
      [tree |-> PreTree,   dflt |-> TRUE,  path |-> <<>>],
      [tree |-> PreTree,   dflt |-> FALSE, path |-> <<"core">>] }

\* Group entries the oracle may propose.
GroupAtBudget  == Entry(TRUE, {"path", "components"}, "new", <<"a.A">>, EmptyTree)
GroupSameAsAll == Entry(TRUE, {"path", "components"}, "new", <<"a.A", "a.B">>, EmptyTree)
GroupNoPath    == Entry(TRUE, {"components"}, "new", <<"b.C", UnknownId>>, EmptyTree)
GroupNoComps   == Entry(TRUE, {"path"}, "new", <<>>, EmptyTree)
GroupNotObject == Entry(FALSE, {}, "new", <<>>, EmptyTree)

\* A mapping literal: the groups in the order written.
Groups(names, entries) ==
    [order |-> names,
     ent   |-> [n \in {names[k] : k \in DOMAIN names} |->
                   entries[CHOOSE k \in DOMAIN names : names[k] = n]]]

NoGroups == [order |-> <<>>, ent |-> EmptyTree]

Mappings ==
    { NoGroups, Groups(<<"All">>, <<GroupSameAsAll>>) }
    \cup { Groups(<<"core", "misc">>, pair) :
             pair \in { <<GroupSameAsAll, GroupNoPath>>,
                        <<GroupSameAsAll, GroupAtBudget>>,
                        <<GroupAtBudget, GroupNoComps>>,
                        <<GroupNoPath, GroupSameAsAll>>,
                        <<GroupAtBudget, GroupNotObject>>,
                        <<GroupNotObject, GroupAtBudget>> } }

\* The value call_llm returns: message.content is None or a string; a string
\* is described by the markers it holds and by what eval() makes of the text
\* between them.
Response(isNone, open, close, literal, m) ==
    [isNone |-> isNone, open |-> open, close |-> close,
     literal |-> literal, order |-> m.order, ent |-> m.ent]

Responses ==
    { Response(TRUE, FALSE, FALSE, "none", NoGroups),
      Response(FALSE, FALSE, TRUE, "none", NoGroups),
      Response(FALSE, TRUE, FALSE, "none", NoGroups),
      Response(FALSE, TRUE, TRUE, "syntax_error", NoGroups),
      Response(FALSE, TRUE, TRUE, "system_exit", NoGroups),
      Response(FALSE, TRUE, TRUE, "list", NoGroups) }
    \cup { Response(FALSE, TRUE, TRUE, "dict", m) : m \in Mappings }

NoResponse == Response(FALSE, FALSE, FALSE, "pending", NoGroups)

-----------------------------------------------------------------------------
(* cluster_modules, lines 61-96: parse, validate, merge *)

\* lines 62-82.  kind: "raise" (an exception leaves the function), "empty"
\* (return {}), "tree" (module_tree is a dict).
ParseResponse(r) ==
    IF r.isNone
    THEN \* line 63 raises TypeError, caught at 78; response[:200] at line 81
         \* raises TypeError again, inside the handler
         [kind |-> "raise", type |-> "TypeError", line |-> 81]
    ELSE IF ~r.open \/ ~r.close                     \* lines 63-67
    THEN [kind |-> "empty", type |-> "", line |-> 67]
    ELSE IF r.literal = "system_exit"               \* line 70, not an Exception
    THEN [kind |-> "raise", type |-> "SystemExit", line |-> 70]
    ELSE IF r.literal = "syntax_error"              \* lines 70, 78-82
    THEN [kind |-> "empty", type |-> "", line |-> 82]
    ELSE IF r.literal # "dict"                      \* lines 72-76
    THEN [kind |-> "empty", type |-> "", line |-> 76]
    ELSE [kind |-> "tree", type |-> "", line |-> 84]

DegenerateStrict(r) == Len(r.order) < 1

\* line 85: len(module_tree) <= 1.
Degenerate(r) == Len(r.order) <= 1

RECURSIVE InsertGroups(_, _, _)
\* lines 94-96: the loop over module_tree.items(), from group k on, applied to
\* the dict `value`.  Stops at the first group whose `path` cannot be deleted.
InsertGroups(value, r, k) ==
    IF k > Len(r.order)
    THEN [value |-> value, inserted |-> k - 1, type |-> "", line |-> 0]
    ELSE LET info == r.ent[r.order[k]]
         IN IF ~info.obj
            THEN [value |-> value, inserted |-> k - 1,
                  type |-> "TypeError", line |-> 95]
            ELSE IF "path" \notin info.has
            THEN [value |-> value, inserted |-> k - 1,
                  type |-> "KeyError", line |-> 95]
            ELSE InsertGroups(
                     DictSet(value, r.order[k],
                             [info EXCEPT !.has = @ \ {"path"}]),
                     r, k + 1)

\* The merge without the walk along the path: the groups land in the dict the
\* tree starts with.
MergeAtRoot(t, P, r) ==
    IF t = EmptyTree
    THEN [tree |-> r.ent, inserted |-> Len(r.order), type |-> "", line |-> 0]
    ELSE LET ins == InsertGroups(t, r, 1)
         IN [tree |-> ins.value, inserted |-> ins.inserted,
             type |-> ins.type, line |-> ins.line]

\* lines 88-96.  The tree after the merge, the number of groups inserted, and
\* the exception raised on the way, if any.
Merge(t, P, r) ==
    IF t = EmptyTree
    THEN [tree |-> r.ent, inserted |-> Len(r.order), type |-> "", line |-> 0]
    ELSE LET nav == Navigate(t, P)
         IN IF ~nav.ok
            THEN [tree |-> t, inserted |-> 0, type |-> "KeyError", line |-> 93]
            ELSE LET ins == InsertGroups(nav.value, r, 1)
                 IN [tree |-> ReplaceAt(t, P, ins.value),
                     inserted |-> ins.inserted,
                     type |-> ins.type, line |-> ins.line]

\* The module_tree dict of an invocation whose groups sit in the dict at P:
\* the entries are shared with the tree, so it is read through the tree.
ModuleTreeOf(t, P, r) ==
    LET d == Navigate(t, P).value
    IN [n \in {r.order[k] : k \in DOMAIN r.order} |-> d[n]]

-----------------------------------------------------------------------------
(* The call stack *)

NoException == [type |-> "", line |-> 0]

\* One invocation of cluster_modules.  path0 and tree0 are the path and the
\* tree at its entry; response and inserted record what it received and merged,
\* handed the candidate lists it passed to its recursive calls so far.
Frame(leaf_nodes, P, t) ==
    [leaf_nodes |-> leaf_nodes, path0 |-> P, tree0 |-> t, pc |-> "start",
     response |-> NoResponse, asked |-> FALSE, i |-> 0, inserted |-> 0,
     handed |-> <<>>]

Top == stack[Len(stack)]

Front(s) == SubSeq(s, 1, Len(s) - 1)

\* The record of an invocation that ended: how it ended, what it returned, and
\* the tree and path it left behind.
EndRecord(f, how, ret, t, P) ==
    [frame |-> f, how |-> how, ret |-> ret, treeEnd |-> t, pathEnd |-> P]

\* No id: Python's None where an id is looked up and not found.
NoId == ""

\* The value of `last` while no relationship record was handled.
NoLast == [caller |-> NoId, callee |-> NoId, before |-> <<>>, any |-> FALSE]

\* ast_parser.py lines 27-31 and 54-57: a new DependencyParser entering the
\* loop over the raw function records.
NewParser ==
    /\ phase = "functions"
    /\ self_components = <<>>
    /\ self_modules = {}
    /\ component_id_mapping = [k \in {} |-> NoId]
    /\ handled = 0
    /\ skipped = 0
    /\ last = NoLast
    /\ returned = [k \in {} |-> 0]
    /\ raisedAt = 0

\* dependency_graphs_builder.py line 18: build_dependency_graph has not run.
NoAnalysis ==
    /\ an_pc = "idle"
    /\ an_components = [n \in {} |-> 0]
    /\ an_graph = [n \in {} |-> {}]
    /\ an_leaf_nodes = {}
    /\ an_pending = {}
    /\ keep_leaf_nodes = <<>>
    /\ an_returned = [k \in {} |-> 0]
    /\ acyclic_graph = [n \in {} |-> {}]
    /\ emitted = {}
    /\ topo_order = <<>>

\* No model name: Python's None for fallback_model.
NoModel == ""

\* native_agent.py lines 37-60: the defaults of an agent nobody has run yet.
NoAgent ==
    [model |-> NoModel, fallback_model |-> NoModel, system_prompt |-> "",
     max_iterations |-> 0]

NoRun ==
    /\ ag_pc = "idle"
    /\ agent = NoAgent
    /\ configured = NoAgent
    /\ messages = <<>>
    /\ iteration = 0
    /\ pending = <<>>
    /\ requests = <<>>
    /\ ag_result = ""
    /\ ag_error = ""

\* A JSON value held in memory or in the tree file: a dict with the given
\* top-level names, None (null), or no file at all.
JsonValue(kind, names) == [kind |-> kind, names |-> names]

NoFile == JsonValue("absent", {})

\* agent_orchestrator.py lines 41-42: an orchestrator that processed nothing.
NoModuleProcessed ==
    /\ or_pc = "idle"
    /\ tree_file = NoFile
    /\ docs = {}
    /\ module_tree = JsonValue("none", {})
    /\ or_module_name = ""
    /\ processed = 0
    /\ file_before = NoFile
    /\ writes = 0
    /\ agent_ended = ""
    /\ or_return = JsonValue("none", {})

Init ==
    /\ NewParser
    /\ NoAnalysis
    /\ NoRun
    /\ NoModuleProcessed
    /\ status = "idle"
    /\ stack = <<>>
    /\ tree = EmptyTree
    /\ path = <<>>
    /\ usingDefault = TRUE
    /\ result = EmptyTree
    /\ exc = NoException
    /\ ended = <<>>

\* An exception raised in the top frame f: no invocation catches it, so every
\* active invocation ends and the top-level call raises.  t and P are the tree
\* and the path at that moment; nothing restores them.
Raise(f, type, line, t, P) ==
    /\ status' = "raised"
    /\ exc' = [type |-> type, line |-> line]
    /\ stack' = <<>>
    /\ tree' = t
    /\ path' = P
    /\ result' = EmptyTree
    /\ ended' = [k \in 1..Len(stack) |->
                    EndRecord(IF k = 1 THEN f ELSE stack[Len(stack) + 1 - k],
                              "raised", EmptyTree, t, P)]
    /\ UNCHANGED usingDefault

\* The top frame f returns ret.  The caller resumes at line 113: it stores the
\* value as the group's children and pops the path (line 114).
Return(f, how, ret) ==
    /\ ended' = <<EndRecord(f, how, ret, tree, path)>>
    /\ IF Len(stack) = 1
       THEN /\ status' = "returned"
            /\ result' = ret
            /\ stack' = <<>>
            /\ UNCHANGED <<tree, path>>
       ELSE LET p == stack[Len(stack) - 1]
                g == p.response.order[p.i]
            IN /\ tree' = SetChildren(tree, p.path0, g, ret)
               /\ path' = Front(path)
               /\ stack' = Append(SubSeq(stack, 1, Len(stack) - 2),
                                  [p EXCEPT !.i = @ + 1])
               /\ UNCHANGED <<status, result>>
    /\ UNCHANGED <<exc, usingDefault>>

-----------------------------------------------------------------------------
(* Actions *)

\* A caller invokes cluster_modules(leaf_nodes, components, ...).
Call(leaf_nodes, c) ==
    /\ UNCHANGED outsideCluster
    /\ status = "idle"
    /\ status' = "running"
    /\ tree' = c.tree
    /\ path' = c.path
    /\ usingDefault' = c.dflt
    /\ stack' = <<Frame(leaf_nodes, c.path, c.tree)>>
    /\ ended' = <<>>
    /\ UNCHANGED <<result, exc>>

\* lines 53-56: format the candidates and test the budget.
BudgetCheck ==
    /\ UNCHANGED outsideCluster
    /\ status = "running"
    /\ Top.pc = "start"
    /\ LET listing == format_potential_core_components(Top.leaf_nodes)
       IN IF WithinBudget(listing.full)
          THEN Return(Top, "base", EmptyTree)
          ELSE /\ stack' = [stack EXCEPT ![Len(stack)].pc = "oracle",
                                         ![Len(stack)].asked = TRUE]
               /\ ended' = <<>>
               /\ UNCHANGED <<status, tree, path, usingDefault, result, exc>>

\* lines 58-59: call_llm raises (transport or authentication failure).
OracleFails ==
    /\ UNCHANGED outsideCluster
    /\ status = "running"
    /\ Top.pc = "oracle"
    /\ Raise(Top, "OracleError", 59, tree, path)

\* lines 59-96: call_llm returns r; parse, validate, merge.
OracleResponds(r) ==
    /\ UNCHANGED outsideCluster
    /\ status = "running"
    /\ Top.pc = "oracle"
    /\ LET f == [Top EXCEPT !.response = r]
           parsed == ParseResponse(r)
       IN IF parsed.kind = "raise"
          THEN Raise(f, parsed.type, parsed.line, tree, path)
          ELSE IF parsed.kind = "empty"
          THEN Return(f, "protocol", EmptyTree)
          ELSE IF Degenerate(r)
          THEN Return(f, "degenerate", EmptyTree)
          ELSE LET m == Merge(tree, path, r)
                   g == [f EXCEPT !.inserted = m.inserted,
                                  !.pc = "loop", !.i = 1]
               IN IF m.type # ""
                  THEN Raise(g, m.type, m.line, m.tree, path)
                  ELSE /\ tree' = m.tree
                       /\ stack' = [stack EXCEPT ![Len(stack)] = g]
                       /\ ended' = <<>>
                       /\ UNCHANGED <<status, path, usingDefault, result, exc>>

\* lines 98-113: one iteration of the loop over the groups, up to and including
\* the recursive call.
Recurse ==
    /\ UNCHANGED outsideCluster
    /\ status = "running"
    /\ Top.pc = "loop"
    /\ Top.i <= Len(Top.response.order)
    /\ LET f == Top
           module_name == f.response.order[f.i]
           module_info == Navigate(tree, f.path0).value[module_name]
       IN IF ~module_info.obj
          THEN \* line 99: module_info.get on a value that is no dict
               Raise(f, "AttributeError", 99, tree, path)
          ELSE LET sub_leaf_nodes ==
                       IF "components" \in module_info.has
                       THEN module_info.components ELSE <<>>
                   valid_sub_leaf_nodes == ValidLeafNodes(sub_leaf_nodes)
                   P == Append(path, module_name)                \* line 111
                   t == SetChildren(tree, f.path0, module_name,
                                    EmptyTree)                   \* line 112
               IN IF Len(stack) >= RecursionLimit
                  THEN Raise(f, "RecursionError", 113, t, P)
                  ELSE /\ tree' = t
                       /\ path' = P
                       /\ stack' = Append(
                              [stack EXCEPT ![Len(stack)].handed =
                                   Append(@, valid_sub_leaf_nodes)],
                              Frame(valid_sub_leaf_nodes, P, t))
                       /\ ended' = <<>>
                       /\ UNCHANGED <<status, usingDefault, result, exc>>

\* line 116: the loop is over, return module_tree.
Finish ==
    /\ UNCHANGED outsideCluster
    /\ status = "running"
    /\ Top.pc = "loop"
    /\ Top.i > Len(Top.response.order)
    /\ Return(Top, "done", ModuleTreeOf(tree, Top.path0, Top.response))

Next ==
    \/ \E leaf_nodes \in CandidateLists, c \in TopCalls : Call(leaf_nodes, c)
    \/ BudgetCheck
    \/ OracleFails
    \/ \E r \in Responses : OracleResponds(r)
    \/ Recurse
    \/ Finish

Spec == Init /\ [][Next]_vars

-----------------------------------------------------------------------------
(* The dependency graph builder: DependencyParser (ast_parser.py) *)

\* Numbers of raw function records and raw relationship records in one run.
MaxFunctions == 3
MaxRelationships == 2

\* A raw function record.  idKind tells what func_dict holds under "id":
\* a string, nothing (the key is missing) or an integer.  The records below
\* are two methods `foo` of one file, a record whose id has the legacy form,
\* a function `bar` with a dotted id and one whose id is its bare name, and
\* three records with a missing, an empty and an integer id.
RawFunction(idKind, id, name, file_path) ==
    [idKind |-> idKind, id |-> id, name |-> name, file_path |-> file_path]

RawFunctions ==
    { RawFunction("str", "m.foo", "foo", "f.py"),
      RawFunction("str", "m.B.foo", "foo", "f.py"),
      RawFunction("str", "f.py:foo", "foo", "f.py"),
      RawFunction("str", "m.bar", "bar", "g.py"),
      RawFunction("str", "bar", "bar", "g.py"),
      RawFunction("missing", "", "foo", "f.py"),
      RawFunction("str", "", "bar", "g.py"),
      RawFunction("int", "7", "foo", "f.py") }

\* The caller and callee strings of the raw relationship records: canonical
\* ids, a legacy key, bare names and a string that names nothing.
Callers == {"m.foo", "f.py:foo", "foo"}
Callees == {"m.foo", "m.bar", "foo", "bar", "zzz"}

RawRelationships == [caller : Callers, callee : Callees]

\* line 60: func_dict.get("id", "").
IdOf(func_dict) == IF func_dict.idKind = "missing" THEN "" ELSE func_dict.id

\* lines 61-62: `not component_id` (an empty string is false, a non-zero integer
\* is true).
NotComponentId(func_dict) ==
    \/ func_dict.idKind = "missing"
    \/ func_dict.idKind = "str" /\ func_dict.id = ""

\* line 86: f"{file_path}:{name}".
LegacyId(file_path, name) ==
    CASE file_path = "f.py" /\ name = "foo" -> "f.py:foo"
      [] file_path = "f.py" /\ name = "bar" -> "f.py:bar"
      [] file_path = "g.py" /\ name = "foo" -> "g.py:foo"
      [] file_path = "g.py" /\ name = "bar" -> "g.py:bar"

\* line 90: "." in component_id.
HasDot(component_id) ==
    component_id \in {"m.foo", "m.B.foo", "f.py:foo", "m.bar"}

\* lines 91-92: ".".join(component_id.split(".")[:-1]).
ModulePath(component_id) ==
    CASE component_id = "m.foo" -> "m"
      [] component_id = "m.B.foo" -> "m.B"
      [] component_id = "f.py:foo" -> "f"
      [] component_id = "m.bar" -> "m"
      [] OTHER -> ""

\* lines 64-81: the Node built from a function record (the fields read later).
Node(func_dict) ==
    [id |-> IdOf(func_dict), name |-> func_dict.name,
     file_path |-> func_dict.file_path, depends_on |-> {}]

\* The keys of the dict cs, held as a sequence of nodes in insertion order.
Keys(cs) == {cs[k].id : k \in DOMAIN cs}

\* The position of key id in cs.
IndexOf(cs, id) == CHOOSE k \in DOMAIN cs : cs[k].id = id

\* line 83: self.components[component_id] = node (a key already present keeps
\* its position and gets the new value).
PutNode(cs, node) ==
    IF node.id \in Keys(cs)
    THEN [cs EXCEPT ![IndexOf(cs, node.id)] = node]
    ELSE Append(cs, node)

\* lines 85-88: the index entries of one record.
IndexRecord(m, func_dict) ==
    LET component_id == IdOf(func_dict)
        m1 == DictSet(m, component_id, component_id)
        legacy_id == LegacyId(func_dict.file_path, func_dict.name)
    IN IF legacy_id # "" /\ legacy_id # component_id
       THEN DictSet(m1, legacy_id, component_id)
       ELSE m1

\* lines 90-94: the module path of one record.
AddModule(ms, component_id) ==
    IF HasDot(component_id) /\ ModulePath(component_id) # ""
    THEN ms \cup {ModulePath(component_id)}
    ELSE ms

\* dict.get(key): the value, or None.
Get(m, key) == IF key \in DOMAIN m THEN m[key] ELSE NoId

\* lines 102-103 with a bare-name fallback for the caller as well.
ResolveCallerByName(m, cs, caller_id) ==
    IF Get(m, caller_id) # NoId THEN Get(m, caller_id)
    ELSE IF \E k \in DOMAIN cs : cs[k].name = caller_id
    THEN cs[CHOOSE k \in DOMAIN cs :
                /\ cs[k].name = caller_id
                /\ \A j \in 1..(k - 1) : cs[j].name # caller_id].id
    ELSE NoId

\* line 102: caller_component_id = component_id_mapping.get(caller_id).
ResolveCaller(m, cs, caller_id) == Get(m, caller_id)

RECURSIVE FirstByName(_, _, _)
\* lines 106-109: the first node from position k on whose name is callee_id.
FirstByName(cs, callee_id, k) ==
    IF k > Len(cs) THEN NoId
    ELSE IF cs[k].name = callee_id THEN cs[k].id
    ELSE FirstByName(cs, callee_id, k + 1)

RECURSIVE LastByName(_, _, _)
LastByName(cs, callee_id, k) ==
    IF k < 1 THEN NoId
    ELSE IF cs[k].name = callee_id THEN cs[k].id
    ELSE LastByName(cs, callee_id, k - 1)

\* lines 104-109 with the scan keeping the last node of that name.
ResolveCalleeLast(m, cs, callee_id) ==
    IF Get(m, callee_id) # NoId THEN Get(m, callee_id)
    ELSE LastByName(cs, callee_id, Len(cs))

\* lines 104-109 with the unresolved callee string kept as it is.
ResolveCalleeRaw(m, cs, callee_id) ==
    IF Get(m, callee_id) # NoId THEN Get(m, callee_id)
    ELSE IF FirstByName(cs, callee_id, 1) # NoId
    THEN FirstByName(cs, callee_id, 1)
    ELSE callee_id

\* lines 104-109: the index first, then the scan over self.components.items().
ResolveCallee(m, cs, callee_id) ==
    IF Get(m, callee_id) # NoId THEN Get(m, callee_id)
    ELSE FirstByName(cs, callee_id, 1)

\* lines 111-114: the edge of one relationship record, if both ends resolve.
AddEdge(cs, caller_component_id, callee_component_id) ==
    IF /\ caller_component_id # NoId
       /\ caller_component_id \in Keys(cs)
       /\ callee_component_id # NoId
    THEN [cs EXCEPT ![IndexOf(cs, caller_component_id)].depends_on =
              @ \cup {callee_component_id}]
    ELSE cs

\* lines 59-94: one iteration of the loop over the function records.  The
\* Node class is not part of these sources: given an integer id its
\* constructor either raises (line 64) or accepts it, and then line 90 raises
\* TypeError on `"." in component_id`, after lines 83-88 have run.
AddFunction(func_dict) ==
    /\ UNCHANGED outsideGraph
    /\ phase = "functions"
    /\ handled < MaxFunctions
    /\ handled' = handled + 1
    /\ UNCHANGED <<last, returned>>
    /\ IF NotComponentId(func_dict)
       THEN /\ skipped' = skipped + 1
            /\ UNCHANGED <<phase, self_components, self_modules,
                           component_id_mapping, raisedAt>>
       ELSE IF func_dict.idKind = "int"
       THEN /\ phase' = "raised"
            /\ UNCHANGED <<skipped, self_modules>>
            /\ \/ /\ raisedAt' = 64
                  /\ UNCHANGED <<self_components, component_id_mapping>>
               \/ /\ raisedAt' = 90
                  /\ self_components' = PutNode(self_components, Node(func_dict))
                  /\ component_id_mapping' =
                         IndexRecord(component_id_mapping, func_dict)
       ELSE /\ self_components' = PutNode(self_components, Node(func_dict))
            /\ component_id_mapping' =
                   IndexRecord(component_id_mapping, func_dict)
            /\ self_modules' = AddModule(self_modules, IdOf(func_dict))
            /\ UNCHANGED <<phase, skipped, raisedAt>>

\* lines 96-97: the first loop is over, the loop over the relationships starts.
StartRelationships ==
    /\ UNCHANGED outsideGraph
    /\ phase = "functions"
    /\ phase' = "relationships"
    /\ handled' = 0
    /\ UNCHANGED <<self_components, self_modules, component_id_mapping,
                   skipped, last, returned, raisedAt>>

\* lines 97-114: one iteration of the loop over the relationship records.
AddRelationship(rel_dict) ==
    /\ UNCHANGED outsideGraph
    /\ phase = "relationships"
    /\ handled < MaxRelationships
    /\ handled' = handled + 1
    /\ LET caller_id == rel_dict.caller
           callee_id == rel_dict.callee
           caller_component_id ==
               ResolveCaller(component_id_mapping, self_components, caller_id)
           callee_component_id ==
               ResolveCallee(component_id_mapping, self_components, callee_id)
       IN /\ self_components' =
                 AddEdge(self_components, caller_component_id,
                         callee_component_id)
          /\ last' = [caller |-> caller_id, callee |-> callee_id,
                      before |-> self_components, any |-> TRUE]
    /\ UNCHANGED <<phase, self_modules, component_id_mapping, skipped,
                   returned, raisedAt>>

\* lines 48-51: _build_components_from_analysis returns and parse_repository
\* returns self.components.
FinishBuild ==
    /\ UNCHANGED outsideGraph
    /\ phase = "relationships"
    /\ phase' = "done"
    /\ returned' = [components |-> self_components]
    /\ UNCHANGED <<self_components, self_modules, component_id_mapping,
                   handled, skipped, last, raisedAt>>

GraphNext ==
    \/ \E func_dict \in RawFunctions : AddFunction(func_dict)
    \/ StartRelationships
    \/ \E rel_dict \in RawRelationships : AddRelationship(rel_dict)
    \/ FinishBuild

GraphSpec == Init /\ [][GraphNext]_vars

-----------------------------------------------------------------------------
(* Leaf nodes and processing order: DependencyGraphBuilder                 *)
(* (dependency_graphs_builder.py) and the sorter it imports (topo_sort)    *)

\* The component ids of the analysed repository, with the component_type of
\* each: a class, an interface whose id holds an error keyword in mixed case,
\* and a function.
AnalysisIds == {"a.Widget", "b.LoadFailed", "c.helper"}

TypeOf(id) ==
    CASE id = "a.Widget" -> "class"
      [] id = "b.LoadFailed" -> "interface"
      [] id = "c.helper" -> "function"

\* The component maps parse_repository may return: any subset of the ids, any
\* depends_on sets over the keys (a node may depend on itself, see C16).
ComponentMaps ==
    UNION { { [n \in S |-> [component_type |-> TypeOf(n),
                            depends_on |-> d[n]]] : d \in [S -> SUBSET S] }
            : S \in SUBSET AnalysisIds }

\* The position of an id in lexicographic order (Python's order on str).
Rank(id) ==
    CASE id = "a.Widget" -> 1
      [] id = "b.LoadFailed" -> 2
      [] id = "c.helper" -> 3

\* str.strip() == "".
IsBlank(leaf_node) == leaf_node \in {"", " "}

\* str.lower().
Lower(leaf_node) ==
    CASE leaf_node = "a.Widget" -> "a.widget"
      [] leaf_node = "b.LoadFailed" -> "b.loadfailed"
      [] OTHER -> leaf_node

\* `err_keyword in text`: substring test.
Contains(text, err_keyword) ==
    <<text, err_keyword>> \in { <<"b.loadfailed", "failed">> }

ErrKeywords == {"error", "exception", "failed", "invalid"}

\* line 68 without .lower().
IsInvalidIdentifierCaseSensitive(leaf_node) ==
    \/ IsBlank(leaf_node)
    \/ \E err_keyword \in ErrKeywords : Contains(leaf_node, err_keyword)

\* line 68: the test that skips a leaf node (every leaf node is a str here).
IsInvalidIdentifier(leaf_node) ==
    \/ IsBlank(leaf_node)
    \/ \E err_keyword \in ErrKeywords : Contains(Lower(leaf_node), err_keyword)

\* lines 66-78: keep_leaf_nodes after the loop body ran for leaf_node.
FilterLeafNode(keep, leaf_node, cm) ==
    IF IsInvalidIdentifier(leaf_node) THEN keep
    ELSE IF leaf_node \in DOMAIN cm
    THEN IF cm[leaf_node].component_type \in {"class", "interface", "struct"}
         THEN Append(keep, leaf_node)
         ELSE keep
    ELSE keep

\* build_graph_from_components: the adjacency structure over the ids, built
\* from depends_on.
build_graph_from_components(cm) == [n \in DOMAIN cm |-> cm[n].depends_on]

\* Leaves as the nodes nothing else depends on.
get_leaf_nodes_by_dependents(g, cm) ==
    {n \in DOMAIN g : \A m \in DOMAIN g : n \notin g[m]}

\* get_leaf_nodes: the nodes with an empty outgoing depends_on set.
get_leaf_nodes(g, cm) == {n \in DOMAIN g : g[n] = {}}

RECURSIVE ReachableFrom(_, _)
\* The nodes reachable from the set seen along edges of g (seen included).
ReachableFrom(g, seen) ==
    LET more == seen \cup UNION { g[n] \cap DOMAIN g : n \in seen }
    IN IF more = seen THEN seen ELSE ReachableFrom(g, more)

\* The strongly connected component of n.
SccOf(g, n) ==
    {m \in ReachableFrom(g, {n}) : n \in ReachableFrom(g, {m})}

\* resolve_cycles: every component of more than one node becomes one node of
\* the condensed graph; a node of the condensed graph is the set of its ids,
\* its edges are the edges that leave that set, and a component of a single
\* node keeps the edges it had.
resolve_cycles(g) ==
    LET sccs == {SccOf(g, n) : n \in DOMAIN g}
    IN [c \in sccs |->
           {e \in sccs :
                /\ \E n \in c : g[n] \cap e # {}
                /\ e # c \/ Cardinality(c) = 1}]

\* The smallest id of a set of ids.
MinId(c) == CHOOSE n \in c : \A m \in c : Rank(n) <= Rank(m)

RECURSIVE SortedIds(_)
\* The ids of c in lexicographic order.
SortedIds(c) ==
    IF c = {} THEN <<>> ELSE <<MinId(c)>> \o SortedIds(c \ {MinId(c)})

\* The nodes of the condensed graph with no remaining predecessor.
Ready(cg, done) == {c \in DOMAIN cg \ done : cg[c] \subseteq done}

\* topological_sort without the tie-break: any ready node may come next.
NextReadyAny(cg, done) == Ready(cg, done)

\* topological_sort, one step of Kahn's algorithm: among the ready nodes the
\* one with the lexicographically smallest id comes next.
NextReady(cg, done) ==
    {c \in Ready(cg, done) :
         \A e \in Ready(cg, done) : Rank(MinId(c)) <= Rank(MinId(e))}

\* line 53: components = parser.parse_repository(filtered_folders).
ParseRepository(cm) ==
    /\ UNCHANGED outsideAnalysis
    /\ an_pc = "idle"
    /\ an_pc' = "parsed"
    /\ an_components' = cm
    /\ UNCHANGED <<an_graph, an_leaf_nodes, an_pending, keep_leaf_nodes,
                   an_returned, acyclic_graph, emitted, topo_order>>

\* lines 59-65: build the graph, get the leaf nodes, start the filter loop.
GetLeafNodes ==
    /\ UNCHANGED outsideAnalysis
    /\ an_pc = "parsed"
    /\ an_pc' = "filter"
    /\ an_graph' = build_graph_from_components(an_components)
    /\ an_leaf_nodes' =
           get_leaf_nodes(build_graph_from_components(an_components),
                          an_components)
    /\ an_pending' = an_leaf_nodes'
    /\ keep_leaf_nodes' = <<>>
    /\ UNCHANGED <<an_components, an_returned, acyclic_graph, emitted,
                   topo_order>>

\* lines 66-78: one iteration of the filter loop (the leaf nodes come in the
\* order of the collection get_leaf_nodes returned, which is not fixed here).
FilterLeaf(leaf_node) ==
    /\ UNCHANGED outsideAnalysis
    /\ an_pc = "filter"
    /\ leaf_node \in an_pending
    /\ an_pending' = an_pending \ {leaf_node}
    /\ keep_leaf_nodes' =
           FilterLeafNode(keep_leaf_nodes, leaf_node, an_components)
    /\ UNCHANGED <<an_pc, an_components, an_graph, an_leaf_nodes, an_returned,
                   acyclic_graph, emitted, topo_order>>

\* line 80: return components, keep_leaf_nodes.
ReturnLeafNodes ==
    /\ UNCHANGED outsideAnalysis
    /\ an_pc = "filter"
    /\ an_pending = {}
    /\ an_pc' = "returned"
    /\ an_returned' = [components |-> an_components,
                       leaf_nodes |-> keep_leaf_nodes]
    /\ UNCHANGED <<an_components, an_graph, an_leaf_nodes, an_pending,
                   keep_leaf_nodes, acyclic_graph, emitted, topo_order>>

\* topological_sort(graph) is called: cycles are resolved first.
StartSort ==
    /\ UNCHANGED outsideAnalysis
    /\ an_pc = "returned"
    /\ an_pc' = "sorting"
    /\ acyclic_graph' = resolve_cycles(an_graph)
    /\ emitted' = {}
    /\ topo_order' = <<>>
    /\ UNCHANGED <<an_components, an_graph, an_leaf_nodes, an_pending,
                   keep_leaf_nodes, an_returned>>

\* One step of the sort: the next ready node is put out, its ids in
\* lexicographic order.
EmitNext ==
    /\ UNCHANGED outsideAnalysis
    /\ an_pc = "sorting"
    /\ \E c \in NextReady(acyclic_graph, emitted) :
           /\ emitted' = emitted \cup {c}
           /\ topo_order' = topo_order \o SortedIds(c)
    /\ UNCHANGED <<an_pc, an_components, an_graph, an_leaf_nodes, an_pending,
                   keep_leaf_nodes, an_returned, acyclic_graph>>

\* No node is ready any more: topological_sort returns the order.
EndSort ==
    /\ UNCHANGED outsideAnalysis
    /\ an_pc = "sorting"
    /\ Ready(acyclic_graph, emitted) = {}
    /\ an_pc' = "sorted"
    /\ UNCHANGED <<an_components, an_graph, an_leaf_nodes, an_pending,
                   keep_leaf_nodes, an_returned, acyclic_graph, emitted,
                   topo_order>>

AnalysisNext ==
    \/ \E cm \in ComponentMaps : ParseRepository(cm)
    \/ GetLeafNodes
    \/ \E leaf_node \in AnalysisIds : FilterLeaf(leaf_node)
    \/ ReturnLeafNodes
    \/ StartSort
    \/ EmitNext
    \/ EndSort

AnalysisSpec == Init /\ [][AnalysisNext]_vars

-----------------------------------------------------------------------------
(* The agent loop: NativeAgent (be/native_agent.py) *)

\* Largest max_iterations an agent is constructed with.
MaxIterations == 2

\* lines 37-57: the arguments of NativeAgent(...) that run and _call_llm read.
AgentConfigs ==
    [model : {"main"}, fallback_model : {NoModel, "backup"},
     system_prompt : {"", "sys"}, max_iterations : 0..MaxIterations]

\* A tool call of an assistant message.  name is a registered tool ("read") or
\* not ("nope"); arguments is a JSON object, a JSON array, or no JSON at all.
ToolCall(id, name, arguments) ==
    [id |-> id, name |-> name, arguments |-> arguments]

\* line 60: the names in self.tool_map.
ToolNames == {"read"}

\* The assistant messages the LLM answers with: content (None is "") and the
\* tool calls it requests.
LlmResponses ==
    { [content |-> "", tool_calls |-> <<>>],
      [content |-> "final", tool_calls |-> <<>>],
      [content |-> "", tool_calls |-> <<ToolCall("call_1", "read", "object")>>],
      [content |-> "thinking",
       tool_calls |-> <<ToolCall("call_1", "nope", "object"),
                        ToolCall("call_2", "read", "not_json"),
                        ToolCall("call_3", "read", "array")>>] }

\* A message of the conversation.
Message(role, content, tool_calls, tool_call_id, name) ==
    [role |-> role, content |-> content, tool_calls |-> tool_calls,
     tool_call_id |-> tool_call_id, name |-> name]

\* lines 186-190: json.loads of the arguments; text that is no JSON gives {}.
ParseArguments(arguments) ==
    IF arguments = "not_json" THEN "empty" ELSE arguments

\* lines 77-103 with the tool's exception leaving _execute_tool.
execute_tool_uncaught(tool_name, arguments, outcome) ==
    IF tool_name \notin ToolNames
    THEN [raised |-> FALSE, content |-> "Error: Tool not found"]
    ELSE IF arguments = "array" \/ outcome = "raise"
    THEN [raised |-> TRUE, content |-> ""]
    ELSE [raised |-> FALSE,
          content |-> IF arguments = "empty" THEN "result of read()"
                      ELSE "result of read(object)"]

\* lines 77-103: _execute_tool.  An unknown name gives an error text; a tool
\* called with `**arguments` where arguments is no mapping, and a tool that
\* raises, give an error text as well (line 101 catches Exception).
execute_tool(tool_name, arguments, outcome) ==
    IF tool_name \notin ToolNames
    THEN [raised |-> FALSE, content |-> "Error: Tool not found"]
    ELSE IF arguments = "array" \/ outcome = "raise"
    THEN [raised |-> FALSE, content |-> "Error executing read"]
    ELSE [raised |-> FALSE,
          content |-> IF arguments = "empty" THEN "result of read()"
                      ELSE "result of read(object)"]

\* line 208: what run returns when the loop runs out.
MaxIterationsNotice ==
    "Task execution reached maximum iterations. Please check the results."

\* line 163 with `<=`.
LoopContinuesInclusive(i, max_iterations) == i <= max_iterations

\* line 163: while iteration < self.max_iterations.
LoopContinues(i, max_iterations) == i < max_iterations

\* line 127 as an assignment to self.model.
AfterFallbackSticky(a) == [a EXCEPT !.model = a.fallback_model]

\* lines 124-127: the agent after the fallback model was chosen (only the
\* local kwargs is changed).
AfterFallback(a) == a

\* lines 150-159: the conversation a run starts with.
InitialMessages(system_prompt) ==
    (IF system_prompt # ""
     THEN <<Message("system", system_prompt, <<>>, "", "")>> ELSE <<>>)
    \o <<Message("user", "user_message", <<>>, "", "")>>

\* lines 135-162: run(user_message, deps) is called on an agent built from cfg.
Run(cfg) ==
    /\ UNCHANGED outsideAgent
    /\ ag_pc = "idle"
    /\ ag_pc' = "loop"
    /\ agent' = cfg
    /\ configured' = cfg
    /\ messages' = InitialMessages(cfg.system_prompt)
    /\ iteration' = 0
    /\ UNCHANGED <<pending, requests, ag_result, ag_error>>

\* lines 163-164 and 206-208: the loop test.
LoopTest ==
    /\ UNCHANGED outsideAgent
    /\ ag_pc = "loop"
    /\ IF LoopContinues(iteration, agent.max_iterations)
       THEN /\ iteration' = iteration + 1
            /\ ag_pc' = "primary"
            /\ UNCHANGED ag_result
       ELSE /\ ag_pc' = "returned"
            /\ ag_result' = MaxIterationsNotice
            /\ UNCHANGED iteration
    /\ UNCHANGED <<agent, configured, messages, pending, requests, ag_error>>

\* lines 169-181: the assistant message is appended; without tool calls run
\* returns its content, or "Task completed." when the content is empty.
Receive(response) ==
    /\ messages' = Append(messages,
           Message("assistant", response.content, response.tool_calls, "", ""))
    /\ IF response.tool_calls = <<>>
       THEN /\ ag_pc' = "returned"
            /\ ag_result' = IF response.content # "" THEN response.content
                            ELSE "Task completed."
            /\ UNCHANGED pending
       ELSE /\ ag_pc' = "tools"
            /\ pending' = response.tool_calls
            /\ UNCHANGED ag_result

\* lines 107-120 and 122-133: the request with self.model; if it raises, the
\* fallback model is tried when there is one, otherwise the error propagates.
PrimaryRequest(failed, response) ==
    /\ UNCHANGED outsideAgent
    /\ ag_pc = "primary"
    /\ requests' = Append(requests, [call |-> iteration, model |-> agent.model,
                                     failed |-> failed])
    /\ IF ~failed
       THEN /\ Receive(response)
            /\ UNCHANGED <<agent, ag_error>>
       ELSE IF agent.fallback_model # NoModel
       THEN /\ ag_pc' = "fallback"
            /\ agent' = AfterFallback(agent)
            /\ UNCHANGED <<messages, pending, ag_result, ag_error>>
       ELSE /\ ag_pc' = "raised"
            /\ ag_error' = "primary"
            /\ UNCHANGED <<agent, messages, pending, ag_result>>
    /\ UNCHANGED <<configured, iteration>>

\* lines 126-132: the request with self.fallback_model; its error propagates.
FallbackRequest(failed, response) ==
    /\ UNCHANGED outsideAgent
    /\ ag_pc = "fallback"
    /\ requests' = Append(requests, [call |-> iteration,
                                     model |-> agent.fallback_model,
                                     failed |-> failed])
    /\ IF ~failed
       THEN /\ Receive(response)
            /\ UNCHANGED ag_error
       ELSE /\ ag_pc' = "raised"
            /\ ag_error' = "fallback"
            /\ UNCHANGED <<messages, pending, ag_result>>
    /\ UNCHANGED <<agent, configured, iteration>>

\* lines 184-204: one iteration of the loop over the tool calls; outcome is
\* what the tool function does when it is called.
ExecuteTool(outcome) ==
    /\ UNCHANGED outsideAgent
    /\ ag_pc = "tools"
    /\ pending # <<>>
    /\ LET tool_call == Head(pending)
           tool_name == tool_call.name
           arguments == ParseArguments(tool_call.arguments)
           tool_result == execute_tool(tool_name, arguments, outcome)
       IN IF tool_result.raised
          THEN /\ ag_pc' = "raised"
               /\ ag_error' = "tool"
               /\ UNCHANGED <<messages, pending>>
          ELSE /\ messages' = Append(messages,
                      Message("tool", tool_result.content, <<>>,
                              tool_call.id, tool_name))
               /\ pending' = Tail(pending)
               /\ ag_pc' = IF Tail(pending) = <<>> THEN "loop" ELSE "tools"
               /\ UNCHANGED ag_error
    /\ UNCHANGED <<agent, configured, iteration, requests, ag_result>>

AgentNext ==
    \/ \E cfg \in AgentConfigs : Run(cfg)
    \/ LoopTest
    \/ \E failed \in BOOLEAN, response \in LlmResponses :
           PrimaryRequest(failed, response)
    \/ \E failed \in BOOLEAN, response \in LlmResponses :
           FallbackRequest(failed, response)
    \/ \E outcome \in {"ok", "raise"} : ExecuteTool(outcome)

AgentSpec == Init /\ [][AgentNext]_vars

\* The interpreter keeps running the loop, and every request and every tool
\* call comes back (with a value or an exception).
AgentFairSpec == AgentSpec /\ WF_vars(AgentNext)

-----------------------------------------------------------------------------
(* Module processing: AgentOrchestrator.process_module (agent_orchestrator.py) *)

\* Calls of process_module in one run of the documentation generator.
MaxModules == 2

ModuleNames == {"core", "util"}

\* The working directories the first call may find: the tree file absent or
\* holding a tree, the documentation of "core" written or not.
WorkingDirs ==
    { [tree_file |-> NoFile, docs |-> {}],
      [tree_file |-> JsonValue("dict", {"core", "util"}), docs |-> {}],
      [tree_file |-> JsonValue("dict", {"core", "util"}), docs |-> {"core"}] }

\* file_manager.load_json: the content of the file, None if there is none.
load_json(file) == IF file = NoFile THEN JsonValue("none", {}) ELSE file

\* file_manager.save_json: the file after the value was written.
save_json(value) == value

\* lines 100-119 with the save in a `finally`.
SavesWhenAlways(how) == TRUE

\* lines 100-119: save_json is reached only when agent.run returned.
SavesWhen(how) == how = "ok"

\* lines 68-91: process_module is called; the tree file is loaded.
ProcessModule(name, dir) ==
    /\ UNCHANGED outsideOrchestrator
    /\ or_pc \in {"idle", "returned", "raised"}
    /\ processed < MaxModules
    /\ processed' = processed + 1
    /\ or_module_name' = name
    /\ LET file == IF or_pc = "idle" THEN dir.tree_file ELSE tree_file
       IN /\ tree_file' = file
          /\ file_before' = file
          /\ module_tree' = load_json(file)
    /\ docs' = IF or_pc = "idle" THEN dir.docs ELSE docs
    /\ writes' = 0
    /\ agent_ended' = ""
    /\ or_pc' = "loaded"
    /\ UNCHANGED or_return

\* lines 93-99: the documentation file exists, return the loaded tree;
\* otherwise the agent is started.
CheckDocs ==
    /\ UNCHANGED outsideOrchestrator
    /\ or_pc = "loaded"
    /\ IF or_module_name \in docs
       THEN /\ or_pc' = "returned"
            /\ or_return' = module_tree
       ELSE /\ or_pc' = "agent"
            /\ UNCHANGED or_return
    /\ UNCHANGED <<tree_file, docs, module_tree, or_module_name, processed,
                   file_before, writes, agent_ended>>

\* lines 101-109, inside agent.run: a tool adds a sub-module to
\* deps.module_tree (the object module_tree).
AgentEditsTree(sub) ==
    /\ UNCHANGED outsideOrchestrator
    /\ or_pc = "agent"
    /\ module_tree.kind = "dict"
    /\ sub \notin module_tree.names
    /\ module_tree' = [module_tree EXCEPT !.names = @ \cup {sub}]
    /\ UNCHANGED <<or_pc, tree_file, docs, or_module_name, processed,
                   file_before, writes, agent_ended, or_return>>

\* lines 101-109, inside agent.run: a tool writes the module's documentation.
AgentWritesDocs ==
    /\ UNCHANGED outsideOrchestrator
    /\ or_pc = "agent"
    /\ or_module_name \notin docs
    /\ docs' = docs \cup {or_module_name}
    /\ UNCHANGED <<or_pc, tree_file, module_tree, or_module_name, processed,
                   file_before, writes, agent_ended, or_return>>

\* lines 100-119: agent.run returns (the tree is saved and returned) or
\* raises (the error is logged and raised again).
AgentEnds(how) ==
    /\ UNCHANGED outsideOrchestrator
    /\ or_pc = "agent"
    /\ agent_ended' = how
    /\ IF SavesWhen(how)
       THEN /\ tree_file' = save_json(module_tree)
            /\ writes' = writes + 1
       ELSE UNCHANGED <<tree_file, writes>>
    /\ IF how = "ok"
       THEN /\ or_pc' = "returned"
            /\ or_return' = module_tree
       ELSE /\ or_pc' = "raised"
            /\ UNCHANGED or_return
    /\ UNCHANGED <<docs, module_tree, or_module_name, processed, file_before>>

OrchestratorNext ==
    \/ \E name \in ModuleNames, dir \in WorkingDirs : ProcessModule(name, dir)
    \/ CheckDocs
    \/ \E sub \in {"sub", "extra"} : AgentEditsTree(sub)
    \/ AgentWritesDocs
    \/ \E how \in {"ok", "raise"} : AgentEnds(how)

OrchestratorSpec == Init /\ [][OrchestratorNext]_vars

-----------------------------------------------------------------------------
(* Properties *)

Range(s) == {s[k] : k \in DOMAIN s}

Ended == Range(ended)

Active == Range(stack)

Tokens(leaf_nodes) == count_tokens(format_potential_core_components(leaf_nodes).full)

\* The response is a mapping literal between both markers.
IsMapping(r) == ~r.isNone /\ r.open /\ r.close /\ r.literal = "dict"

Received(f) == f.response.literal # "pending"

\* C1: an invocation whose full listing has at most MAX_TOKEN_PER_MODULE tokens
\* (equality included) never asks the oracle and never loops over groups; it
\* ends by returning the empty mapping with the tree as it found it.
C1_BudgetBaseCase ==
    /\ \A f \in Active :
           Tokens(f.leaf_nodes) <= MAX_TOKEN_PER_MODULE
               => f.pc = "start" /\ ~f.asked /\ ~Received(f)
    /\ \A e \in Ended :
           Tokens(e.frame.leaf_nodes) <= MAX_TOKEN_PER_MODULE
               => /\ e.how = "base"
                  /\ e.ret = EmptyTree
                  /\ ~e.frame.asked
                  /\ e.treeEnd = e.frame.tree0

\* An invocation whose listing has exactly MAX_TOKEN_PER_MODULE tokens has
\* ended in the base case.
C1_Witness ==
    \E e \in Ended :
        /\ Tokens(e.frame.leaf_nodes) = MAX_TOKEN_PER_MODULE
        /\ e.how = "base"

\* C2: a response that parses to a mapping with one group or none makes the
\* invocation return the empty mapping: nothing is merged, no recursive call
\* is made, tree and path are as at entry.
C2_DegenerateFallback ==
    /\ \A f \in Active :
           IsMapping(f.response) /\ Len(f.response.order) <= 1
               => f.pc = "oracle"
    /\ \A e \in Ended :
           IsMapping(e.frame.response) /\ Len(e.frame.response.order) <= 1
               => /\ e.how = "degenerate"
                  /\ e.ret = EmptyTree
                  /\ e.treeEnd = e.frame.tree0
                  /\ e.pathEnd = e.frame.path0

\* An invocation that received a single group has ended.
C2_Witness ==
    \E e \in Ended :
        /\ IsMapping(e.frame.response)
        /\ Len(e.frame.response.order) = 1
        /\ e.how = "degenerate"

\* C3: whatever the oracle returns, a response without both markers, or whose
\* literal does not parse, or does not parse to a mapping, makes the invocation
\* return the empty mapping; it never raises.
C3_MalformedNeverRaises ==
    \A e \in Ended :
        Received(e.frame) /\ ~IsMapping(e.frame.response)
            => e.how # "raised" /\ e.ret = EmptyTree

\* C4: a mapping with two or more groups never makes cluster_modules raise
\* while it reads the group entries (lines 93-99), whatever their shape.
C4_EntriesValidated ==
    status = "raised" => exc.line \notin {93, 95, 99}

\* C5: a failure of the oracle call is a flat fallback of that branch: it does
\* not end the top-level call with an exception.
C5_OracleFailureIsFlat ==
    status = "raised" => exc.type # "OracleError"

\* C6: every recursive call receives candidates that form a strict subset of
\* the candidates of the invocation that made the call.
C6_StrictSubset ==
    \A k \in 2..Len(stack) :
        /\ Range(stack[k].leaf_nodes) \subseteq Range(stack[k - 1].leaf_nodes)
        /\ Range(stack[k].leaf_nodes) # Range(stack[k - 1].leaf_nodes)

\* C7: the top-level call returns; the recursion never descends until the
\* interpreter's stack is exhausted.  (The top-level candidate lists hold at
\* most two valid ids, so a strictly shrinking recursion has an empty candidate
\* list at depth three at the latest and ends there in the base case.)
C7_NeverDescendsForever ==
    status = "raised" => exc.type # "RecursionError"

\* C8: when an invocation ends, by return or by exception, the path list holds
\* what it held when the invocation started; the shared default list is empty
\* once the top-level call is over.
C8_PathRestored ==
    /\ \A e \in Ended : e.pathEnd = e.frame.path0
    /\ status \in {"returned", "raised"} /\ usingDefault => path = <<>>

RECURSIVE SameOutside(_, _, _)
\* Trees t0 and t1 differ at most in the children mapping of the entry reached
\* by P (for the empty path: anywhere).
SameOutside(t0, t1, P) ==
    \/ P = <<>>
    \/ /\ DOMAIN t0 = DOMAIN t1
       /\ \A n \in DOMAIN t0 \ {P[1]} : t0[n] = t1[n]
       /\ P[1] \in DOMAIN t0
       /\ [t0[P[1]] EXCEPT !.children = EmptyTree]
              = [t1[P[1]] EXCEPT !.children = EmptyTree]
       /\ SameOutside(t0[P[1]].children, t1[P[1]].children, Tail(P))

\* C9: an invocation working at path P changes only the children mapping of
\* the entry reached by P; every entry that is not on or below P is as it was
\* when the invocation started.
C9_MergeScope ==
    /\ \A f \in Active : SameOutside(f.tree0, tree, f.path0)
    /\ \A e \in Ended : SameOutside(e.frame.tree0, e.treeEnd, e.frame.path0)

\* An invocation at a non-empty path has merged its groups into a tree that
\* holds a sibling entry with a subtree of its own.
C9_Witness ==
    \E f \in Active :
        /\ f.path0 # <<>>
        /\ f.pc = "loop"
        /\ f.inserted >= 2
        /\ tree # f.tree0
        /\ \E n \in DOMAIN tree : n # f.path0[1] /\ tree[n].children # EmptyTree

\* The groups of e's response that the dict at e's path holds at the end and
\* did not hold (or held differently) at the start.
InsertedGroups(e) ==
    LET d0 == Navigate(e.frame.tree0, e.frame.path0).value
        d1 == Navigate(e.treeEnd, e.frame.path0).value
    IN {n \in Range(e.frame.response.order) :
            n \in DOMAIN d1 /\ (n \in DOMAIN d0 => d0[n] # d1[n])}

\* C10: an invocation that ends in the base case, a protocol failure or a
\* degenerate grouping leaves the tree as it was, and no invocation ends with
\* only some of its response's groups inserted.
C10_MergeAllOrNothing ==
    \A e \in Ended :
        /\ e.how \in {"base", "protocol", "degenerate"}
               => e.treeEnd = e.frame.tree0
        /\ \/ InsertedGroups(e) = {}
           \/ InsertedGroups(e) = Range(e.frame.response.order)

RECURSIVE TreeIds(_)
\* Every id listed in the `components` of an entry of tree t, at any level.
TreeIds(t) ==
    UNION { (IF t[n].obj /\ "components" \in t[n].has
             THEN Range(t[n].components) ELSE {})
            \cup TreeIds(t[n].children) : n \in DOMAIN t }

\* C11: an id that is no key of the component map reaches no recursive call and
\* no listing, and the tree that the top-level call returns lists no such id.
C11_NoUnknownIdDownstream ==
    /\ \A k \in 2..Len(stack) :
           Range(stack[k].leaf_nodes) \subseteq DOMAIN components
    /\ \A f \in Active :
           \A k \in DOMAIN format_potential_core_components(f.leaf_nodes).full :
               format_potential_core_components(f.leaf_nodes).full[k].kind = "id"
                   => format_potential_core_components(f.leaf_nodes).full[k].text
                          \in DOMAIN components
    /\ status = "returned" => TreeIds(result) \subseteq DOMAIN components

\* C12: the candidate lists an invocation hands to the recursive calls for its
\* groups are pairwise disjoint.
C12_SiblingsDisjoint ==
    \A f \in Active \cup {e.frame : e \in Ended} :
        \A i, j \in DOMAIN f.handed :
            i # j => Range(f.handed[i]) \cap Range(f.handed[j]) = {}

\* The ids the groups of response r list in their `components`.
GroupedIds(r) ==
    UNION { IF r.ent[n].obj /\ "components" \in r.ent[n].has
            THEN Range(r.ent[n].components) ELSE {} : n \in DOMAIN r.ent }

\* C13: when an invocation accepts a grouping, every valid candidate id of the
\* invocation is listed by at least one of the groups.
C13_GroupsCoverCandidates ==
    \A f \in Active :
        f.pc = "loop"
            => Range(ValidLeafNodes(f.leaf_nodes)) \subseteq GroupedIds(f.response)

RECURSIVE Preserved(_, _)
\* Every entry of t0 is an entry of t1 with the same description and
\* components, and its children are preserved likewise (t1 may hold more).
Preserved(t0, t1) ==
    \A n \in DOMAIN t0 :
        /\ n \in DOMAIN t1
        /\ t1[n].description = t0[n].description
        /\ t1[n].components = t0[n].components
        /\ Preserved(t0[n].children, t1[n].children)

\* C14: every entry the tree held when an invocation started is still there
\* when the invocation ends, with its description, components and children.
C14_ExistingEntriesKept ==
    \A e \in Ended : Preserved(e.frame.tree0, e.treeEnd)

\* The candidate lists of at most three entries over the known ids and the
\* unknown one: the inputs format_potential_core_components is compared on.
ListsOfIds ==
    UNION { [1..n -> CompIds \cup {UnknownId}] : n \in 0..3 }

\* C24: two candidate lists that hold the same ids, in any order and with any
\* repetition, give the same lightweight listing and the same full listing.
C24_ListingDependsOnIdSetOnly ==
    \A f \in Active :
        \A other \in ListsOfIds :
            Range(other) = Range(f.leaf_nodes)
                => format_potential_core_components(other)
                       = format_potential_core_components(f.leaf_nodes)

RECURSIVE NoPathKept(_)
\* No entry of tree t, at any level, carries a `path` field.
NoPathKept(t) ==
    \A n \in DOMAIN t :
        /\ "path" \notin t[n].has
        /\ NoPathKept(t[n].children)

\* C25: when the top-level call has returned, no entry of the resulting tree
\* and no entry of the shared tree carries the oracle's `path` field.
C25_OraclePathStripped ==
    status = "returned" => NoPathKept(result) /\ NoPathKept(tree)

-----------------------------------------------------------------------------
(* Properties of the graph builder *)

Built == phase \in {"relationships", "done"}

\* C15: after graph construction every id in every node's depends_on set is a
\* key of the component map.
C15_NoDanglingEdge ==
    Built => \A k \in DOMAIN self_components :
                 self_components[k].depends_on \subseteq Keys(self_components)

\* A relationship whose caller resolves and whose callee names nothing was
\* handled, next to an edge that was kept.
C15_Witness ==
    /\ phase = "done"
    /\ last.any
    /\ last.caller \in DOMAIN component_id_mapping
    /\ last.callee \notin DOMAIN component_id_mapping
    /\ \A k \in DOMAIN self_components : self_components[k].name # last.callee
    /\ \E k \in DOMAIN self_components : self_components[k].depends_on # {}

\* C16: after graph construction no node's depends_on set contains the node's
\* own id.
C16_NoSelfReference ==
    Built => \A k \in DOMAIN self_components :
                 self_components[k].id \notin self_components[k].depends_on

\* C17: a relationship record whose caller is no key of the id-resolution
\* index leaves every depends_on set as it was, also when the caller string is
\* the bare name of a component.
C17_UnresolvedCallerAddsNothing ==
    (last.any /\ last.caller \notin DOMAIN component_id_mapping)
        => self_components = last.before

\* The caller string is the bare name of a component but no key of the index,
\* and the callee resolves.
C17_Witness ==
    /\ last.any
    /\ last.caller \notin DOMAIN component_id_mapping
    /\ \E k \in DOMAIN last.before : last.before[k].name = last.caller
    /\ \/ last.callee \in DOMAIN component_id_mapping
       \/ \E k \in DOMAIN last.before : last.before[k].name = last.callee

\* C18: a function record with a missing, empty or non-string id never aborts
\* graph construction, and what parse_repository returns holds the number of
\* records that were skipped.
C18_SkippedAndReported ==
    /\ phase # "raised"
    /\ phase = "done" => /\ "skipped" \in DOMAIN returned
                         /\ returned.skipped = skipped

\* The callee a relationship record stands for: the indexed id, else the id of
\* the earliest inserted node with that bare name, else none.
ExpectedCallee(m, cs, callee) ==
    IF callee \in DOMAIN m THEN m[callee]
    ELSE IF \E k \in DOMAIN cs : cs[k].name = callee
    THEN cs[CHOOSE k \in DOMAIN cs :
                /\ cs[k].name = callee
                /\ \A j \in DOMAIN cs : cs[j].name = callee => k <= j].id
    ELSE NoId

\* C19: for a relationship record whose caller resolves, the callee resolves
\* to the indexed id if it is a key of the index, otherwise to the first node
\* in insertion order with that bare name; the caller's depends_on gains
\* exactly that id, or nothing if there is none.
C19_CalleeResolution ==
    (last.any /\ last.caller \in DOMAIN component_id_mapping)
        => LET cs0 == last.before
               c == component_id_mapping[last.caller]
               e == ExpectedCallee(component_id_mapping, cs0, last.callee)
           IN /\ Len(self_components) = Len(cs0)
              /\ \A k \in DOMAIN cs0 :
                     self_components[k].depends_on =
                         cs0[k].depends_on \cup
                             (IF cs0[k].id = c /\ e # NoId THEN {e} ELSE {})

\* The callee is no key of the index, two nodes have it as their bare name, and
\* the edge to the first of them is new.
C19_Witness ==
    /\ last.any
    /\ last.caller \in DOMAIN component_id_mapping
    /\ last.callee \notin DOMAIN component_id_mapping
    /\ \E j, k \in DOMAIN last.before :
           /\ j < k
           /\ last.before[j].name = last.callee
           /\ last.before[k].name = last.callee
           /\ \A i \in 1..(j - 1) : last.before[i].name # last.callee
           /\ \E n \in DOMAIN last.before :
                  /\ last.before[n].id = component_id_mapping[last.caller]
                  /\ last.before[j].id \notin last.before[n].depends_on
                  /\ last.before[j].id \in self_components[n].depends_on

\* C20: once the index is built, every id of the component map resolves to
\* itself and the legacy key of every node resolves to that node's id.
C20_IndexResolves ==
    Built => \A k \in DOMAIN self_components :
                 LET node == self_components[k]
                     legacy_id == LegacyId(node.file_path, node.name)
                 IN /\ Get(component_id_mapping, node.id) = node.id
                    /\ legacy_id # node.id
                           => Get(component_id_mapping, legacy_id) = node.id

-----------------------------------------------------------------------------
(* Properties of the leaf-node filter and the sorter *)

\* C21: the leaf nodes are exactly the components whose depends_on set is
\* empty, whatever depends on them.
C21_LeafIffNoDependsOn ==
    an_pc \notin {"idle", "parsed"}
        => \A n \in DOMAIN an_components :
               n \in an_leaf_nodes <=> an_components[n].depends_on = {}

\* A leaf that another component depends on, next to a component that nothing
\* depends on and that is no leaf.
C21_Witness ==
    /\ an_pc = "filter"
    /\ \E n \in an_leaf_nodes :
           \E m \in DOMAIN an_components : n \in an_components[m].depends_on
    /\ \E n \in DOMAIN an_components \ an_leaf_nodes :
           \A m \in DOMAIN an_components : n \notin an_components[m].depends_on

PosIn(p, n) == CHOOSE k \in DOMAIN p : p[k] = n

\* p puts every id after the ids it depends on, unless both are in one
\* strongly connected component.
DependencyFirst(p) ==
    \A n \in Range(p) :
        \A d \in an_components[n].depends_on \cap Range(p) :
            d \notin SccOf(an_graph, n) => PosIn(p, d) < PosIn(p, n)

\* p keeps the ids of every strongly connected component together, in
\* lexicographic order.
ComponentsTogether(p) ==
    \A j, k \in DOMAIN p :
        (j < k /\ p[k] \in SccOf(an_graph, p[j]))
            => /\ Rank(p[j]) < Rank(p[k])
               /\ \A i \in j..k : p[i] \in SccOf(an_graph, p[j])

\* p is not after q in lexicographic order of the ids (p, q of one length).
LexLeq(p, q) ==
    \/ p = q
    \/ \E k \in DOMAIN p :
           /\ Rank(p[k]) < Rank(q[k])
           /\ \A j \in 1..(k - 1) : p[j] = q[j]

\* The arrangements of the ids that were put out.
Arrangements(ids) ==
    {p \in [1..Cardinality(ids) -> ids] : Range(p) = ids}

\* C23: the order puts every component after the components it depends on
\* (outside its strongly connected component), and of all such orders of the
\* same ids it is the lexicographically first, so ids without edges come out
\* in lexicographic order.
C23_DependencyFirstLexicographic ==
    an_pc = "sorted"
        => /\ DependencyFirst(topo_order)
           /\ ComponentsTogether(topo_order)
           /\ \A p \in Arrangements(Range(topo_order)) :
                  (DependencyFirst(p) /\ ComponentsTogether(p))
                      => LexLeq(topo_order, p)

\* All three ids are sorted, one of them after a dependency with a larger id.
C23_Witness ==
    /\ an_pc = "sorted"
    /\ Len(topo_order) = 3
    /\ \E n \in Range(topo_order) :
           \E d \in an_components[n].depends_on :
               /\ Rank(d) > Rank(n)
               /\ d \notin SccOf(an_graph, n)

\* The ids that hold one of the keywords error, exception, failed, invalid in
\* any letter case.
ErrorLikeIds == {"b.LoadFailed"}

\* C30: build_dependency_graph returns as candidates exactly the leaf nodes
\* that are keys of the component map, of type class, interface or struct, not
\* blank and without an error keyword; the component map is returned as
\* parse_repository gave it.
C30_CandidateFilter ==
    an_pc = "returned"
        => /\ Range(an_returned.leaf_nodes) =
                  {n \in an_leaf_nodes :
                       /\ n \in DOMAIN an_components
                       /\ an_components[n].component_type
                              \in {"class", "interface", "struct"}
                       /\ n \notin {"", " "}
                       /\ n \notin ErrorLikeIds}
           /\ an_returned.components = an_components

\* All three ids are leaves: the class is kept, the interface with the error
\* keyword and the function are not.
C30_Witness ==
    /\ an_pc = "returned"
    /\ an_leaf_nodes = AnalysisIds
    /\ an_returned.leaf_nodes = <<"a.Widget">>

-----------------------------------------------------------------------------
(* Properties of the agent loop *)

\* The contents a tool message may carry for a tool call.
ExpectedContents(tool_call) ==
    IF tool_call.name \notin ToolNames THEN {"Error: Tool not found"}
    ELSE CASE tool_call.arguments = "object" ->
                  {"result of read(object)", "Error executing read"}
           [] tool_call.arguments = "not_json" ->
                  {"result of read()", "Error executing read"}
           [] tool_call.arguments = "array" -> {"Error executing read"}

\* The assistant message at position p has one tool message for each of its
\* tool calls right after it, in the order of the calls, and no further one.
ToolCallsAnswered(p) ==
    LET calls == messages[p].tool_calls
    IN /\ p + Len(calls) <= Len(messages)
       /\ \A k \in DOMAIN calls :
              /\ messages[p + k].role = "tool"
              /\ messages[p + k].tool_call_id = calls[k].id
              /\ messages[p + k].name = calls[k].name
              /\ messages[p + k].content \in ExpectedContents(calls[k])
       /\ p + Len(calls) < Len(messages)
              => messages[p + Len(calls) + 1].role = "assistant"

\* C26: whenever run is not in the middle of executing tool calls (so before
\* every LLM request and at its end) every assistant message is followed by
\* exactly one tool message per requested call, in order and with the call's
\* id, and no tool call makes run raise.
C26_ToolCallProtocol ==
    /\ ag_error # "tool"
    /\ ag_pc # "tools"
           => \A p \in DOMAIN messages :
                  messages[p].role = "assistant" => ToolCallsAnswered(p)

\* The next LLM request is about to be made after an unknown tool, arguments
\* that were no JSON and a failing tool were answered.
C26_Witness ==
    /\ ag_pc = "primary"
    /\ \E p \in DOMAIN messages : messages[p].content = "Error: Tool not found"
    /\ \E p \in DOMAIN messages : messages[p].content = "result of read()"
    /\ \E p \in DOMAIN messages : messages[p].content = "Error executing read"

\* The positions of the assistant messages without tool calls.
FinalAnswers ==
    {p \in DOMAIN messages :
         messages[p].role = "assistant" /\ messages[p].tool_calls = <<>>}

\* What holds of a run at every moment: no more LLM rounds than
\* max_iterations, only a failed LLM request makes it raise, and what it
\* returns is the first answer without tool calls or the notice.
RunWithinBounds ==
    /\ Cardinality({requests[k].call : k \in DOMAIN requests})
           <= configured.max_iterations
    /\ ag_pc = "raised"
           => requests # <<>> /\ requests[Len(requests)].failed
    /\ ag_pc = "returned"
           => IF FinalAnswers # {}
              THEN /\ FinalAnswers = {Len(messages)}
                   /\ ag_result =
                          IF messages[Len(messages)].content # ""
                          THEN messages[Len(messages)].content
                          ELSE "Task completed."
              ELSE /\ Cardinality({p \in DOMAIN messages :
                                       messages[p].role = "assistant"})
                          = configured.max_iterations
                   /\ ag_result = MaxIterationsNotice

\* C27: run makes at most max_iterations LLM rounds and always ends: it
\* returns the first answer without tool calls or the maximum-iterations
\* notice, and raises only when an LLM request raised.
C27_RunIsBounded ==
    /\ []RunWithinBounds
    /\ <>(ag_pc \in {"returned", "raised"})

\* All max_iterations rounds requested tools and run returned the notice.
C27_Witness ==
    /\ ag_pc = "returned"
    /\ configured.max_iterations = MaxIterations
    /\ FinalAnswers = {}
    /\ ag_result = MaxIterationsNotice

\* C28: every call of _call_llm requests the configured primary model first;
\* the fallback model is requested only right after the primary request of
\* the same call raised, only if one is configured, and once; an error of the
\* fallback, or of the primary without a fallback, leaves run; the agent's
\* model stays the configured one.
C28_FallbackModel ==
    /\ agent.model = configured.model
    /\ \A k \in DOMAIN requests :
           IF k = 1 \/ requests[k - 1].call # requests[k].call
           THEN requests[k].model = configured.model
           ELSE /\ requests[k].model = configured.fallback_model
                /\ configured.fallback_model # NoModel
                /\ requests[k - 1].model = configured.model
                /\ requests[k - 1].failed
                /\ k = 2 \/ requests[k - 2].call # requests[k].call
    /\ requests # <<>> /\ requests[Len(requests)].failed
           => IF /\ requests[Len(requests)].model = configured.model
                 /\ configured.fallback_model # NoModel
              THEN ag_pc = "fallback"
              ELSE ag_pc = "raised"

\* A call that was served by the fallback model is followed by a call that
\* requests the primary model.
C28_Witness ==
    \E k \in DOMAIN requests :
        /\ requests[k].model = "backup"
        /\ ~requests[k].failed
        /\ k + 1 \in DOMAIN requests
        /\ requests[k + 1].model = "main"

-----------------------------------------------------------------------------
(* Properties of module processing *)

\* C29: a call of process_module writes the tree file exactly when its agent
\* ran and returned, and then once; when the documentation file exists the
\* agent does not run, the loaded tree is returned and the file stays as it
\* was; when the agent raises, the call raises and the file stays as it was.
C29_TreeFileRewrite ==
    /\ writes = (IF agent_ended = "ok" THEN 1 ELSE 0)
    /\ writes = 0 => tree_file = file_before
    /\ writes = 1 => tree_file = module_tree
    /\ or_pc = "returned" /\ agent_ended = ""
           => /\ or_module_name \in docs
              /\ or_return = load_json(file_before)
    /\ agent_ended = "raise" => or_pc = "raised"
    /\ or_pc = "raised" => agent_ended = "raise"

\* The agent changed the tree in memory and then raised; the file holds the
\* tree it held before.
C29_Witness ==
    /\ or_pc = "raised"
    /\ module_tree # load_json(file_before)
    /\ tree_file = file_before

====
